---- MODULE Spec2Model ----
(***************************************************************************)
(* Repository synchronisation engine of flynch:                            *)
(*   services/github_fetcher.py  GitHubFetcher (fetch + writer)            *)
(*   utils/datetime_utils.py     DateTimeManager                           *)
(*   models/repository.py        Repository table, UTCDateTime column type *)
(*   db/database.py              SessionLocal (autoflush off), get_database*)
(*                                                                         *)
(* Time is counted in whole hours.  A datetime object is a record          *)
(* [wall, aware, off]: the wall-clock reading, whether it carries a        *)
(* tzinfo, and that offset.  An ISO-8601 text is a record [wall, sfx].     *)
(* The committed table is a set of rows; each request works on its own     *)
(* Session (identity map objs, pending inserts, pending deletes) and the   *)
(* table only changes when commit succeeds.                                *)
(***************************************************************************)
EXTENDS Integers, Sequences, FiniteSets, TLC

\* ---- bounds of the model
MaxRepoId == 3
MaxTime == 2
MaxPasses == 2
\* records GitHub puts on a full page; stands in for the per_page it is asked for
ServerPage == 2

\* ---- program constant: page size sent with every listing request
per_page == 100

RepoIds == 1..MaxRepoId
Instants == 0..MaxTime
PassIds == {1}

None == "None"
NoRow == [id |-> 0]
NoRepo == [absent |-> TRUE]

\* ------------------------------------------------------------------------
\* DateTimeManager and the UTCDateTime column type
\* ------------------------------------------------------------------------
IsoText(w, s) == [wall |-> w, sfx |-> s]
Aware(w, o) == [wall |-> w, aware |-> TRUE, off |-> o]
Naive(w) == [wall |-> w, aware |-> FALSE, off |-> 0]

\* datetime.fromisoformat accepts the text (after the Z replacement)
ParseOk(dt_string) == dt_string.sfx \in {"Z", "+00:00", "+01:00", ""}

parse_github_datetime(dt_string) ==
  LET s == IF dt_string.sfx = "Z" THEN "+00:00" ELSE dt_string.sfx
  IN CASE s = "+00:00" -> Aware(dt_string.wall, 0)
       [] s = "+01:00" -> Aware(dt_string.wall, 1)
       [] OTHER -> Naive(dt_string.wall)

compare_datetimes_reversed(dt1, dt2) ==
  LET Utc(d) == IF d.aware THEN d.wall - d.off ELSE d.wall
  IN IF Utc(dt1) > Utc(dt2) THEN -1 ELSE IF Utc(dt1) < Utc(dt2) THEN 1 ELSE 0

compare_datetimes_wall(dt1, dt2) ==
  IF dt1.wall < dt2.wall THEN -1 ELSE IF dt1.wall > dt2.wall THEN 1 ELSE 0

compare_datetimes_local(dt1, dt2) ==
  LET Local(d) == IF d.aware THEN d.wall - d.off ELSE d.wall - 1
  IN IF Local(dt1) < Local(dt2) THEN -1 ELSE IF Local(dt1) > Local(dt2) THEN 1 ELSE 0

\* dt if dt.tzinfo else dt.replace(tzinfo=timezone.utc), as a UTC reading
UtcOf(dt) == IF dt.aware THEN dt.wall - dt.off ELSE dt.wall

compare_datetimes(dt1, dt2) ==
  IF UtcOf(dt1) < UtcOf(dt2) THEN -1
  ELSE IF UtcOf(dt1) > UtcOf(dt2) THEN 1
  ELSE 0

\* UTCDateTime.process_bind_param: what reaches the column (a naive UTC reading)
process_bind_param(value) == IF value.aware THEN value.wall - value.off ELSE value.wall

\* UTCDateTime.process_result_value: what a load hands back
process_result_value(value) == Aware(value, 0)

now_utc(clock) == Aware(clock, 0)

\* json.dumps of a list
JsonDumps(l) == [json |-> l]

\* ------------------------------------------------------------------------
\* Repository rows
\* ------------------------------------------------------------------------
\* meta stands for the columns copied verbatim from the listing record:
\* repo_name, repo_url, description, language, topics, stars, forks.
StoredRow(pk, uid, rid, owner, ts) ==
  [id |-> pk, user_id |-> uid, repo_id |-> rid, owner_username |-> owner,
   meta |-> 0, created_at |-> 0, updated_at |-> ts, fetched_at |-> 0,
   has_readme |-> FALSE, readme_content |-> None,
   languages_list |-> JsonDumps(<<>>), is_eligible |-> TRUE]

\* a row as the ORM object a query returns
Load(row) ==
  [row EXCEPT !.created_at = process_result_value(@),
              !.updated_at = process_result_value(@),
              !.fetched_at = process_result_value(@)]

\* an ORM object as the row a flush writes
Bind(obj) ==
  [obj EXCEPT !.created_at = process_bind_param(@),
              !.updated_at = process_bind_param(@),
              !.fetched_at = process_bind_param(@)]

\* the listing record GitHub serves for a repository
UpstreamRepo(rid, t) ==
  [id |-> rid, meta |-> 1, updated_at |-> IsoText(t, "Z"),
   created_at |-> IsoText(1, "Z")]

NewRepository(repo_data, username, current_time) ==
  [id |-> 0, user_id |-> None, repo_id |-> repo_data.id, owner_username |-> username,
   meta |-> repo_data.meta,
   created_at |-> parse_github_datetime(repo_data.created_at),
   updated_at |-> parse_github_datetime(repo_data.updated_at),
   fetched_at |-> current_time,
   has_readme |-> repo_data.has_readme, readme_content |-> repo_data.readme_content,
   languages_list |-> JsonDumps(repo_data.languages_list), is_eligible |-> repo_data.is_eligible]

\* the assignments of the update branch (created_at and owner_username are not among them)
UpdateRepository(existing_repo, repo_data, current_time) ==
  [existing_repo EXCEPT
     !.meta = repo_data.meta,
     !.updated_at = parse_github_datetime(repo_data.updated_at),
     !.fetched_at = current_time,
     !.has_readme = repo_data.has_readme,
     !.readme_content = repo_data.readme_content,
     !.languages_list = JsonDumps(repo_data.languages_list),
     !.is_eligible = repo_data.is_eligible]

\* ------------------------------------------------------------------------
\* State
\* ------------------------------------------------------------------------
VARIABLES
  store,      \* committed rows of table repositories
  upstream,   \* upstream[u][rid]: the record GitHub lists for account u, or NoRepo
  pass,       \* pass[p]: one request running fetch_and_filter + save
  passes,     \* number of passes started so far; doubles as the wall clock
  dt,         \* one timestamp on its way through DateTimeManager and the column type
  analysis    \* table project_analysis and the RepositoryAnalyzer call at work on it

vars == <<store, upstream, pass, passes, dt, analysis>>

Owners == {"x", "y"}

\* an empty project_analysis table and no analyze_repositories call
NoAnalyzer ==
  [rows |-> {}, pc |-> "idle", repo_names |-> <<>>, username |-> None,
   repo_id |-> 0, analysis_id |-> 0, results |-> <<>>, calls |-> 0,
   runs |-> [rid \in RepoIds |-> 0]]

\* no timestamp under way
NoTimestamp ==
  [pc |-> "none", t |-> Naive(0), loaded |-> FALSE, text |-> IsoText(0, ""),
   v |-> Naive(0), b |-> Naive(0), cmp |-> 0,
   c |-> Naive(0), ba |-> 0, bc |-> 0, tc |-> 0]

EmptyFn == [k \in {} |-> 0]

\* what the previous pass of this account returned, when there was one
NoPrev == [walk |-> "none", result |-> <<0, 0, 0>>]

IdlePass ==
  [pc |-> "idle", user |-> None, existing_repos |-> EmptyFn, objs |-> EmptyFn,
   active |-> {}, repositories |-> <<>>, page |-> 1, pending |-> <<>>,
   cur |-> NoRepo, readme_content |-> None, readme_status |-> None,
   walk |-> "none", exc |-> None, result |-> <<0, 0, 0>>,
   offset |-> 0, clock |-> 0, raisedAt |-> None, prev |-> NoPrev,
   skipped |-> {}, readmeCalls |-> {}, langCalls |-> {}, twice |-> {}]

Extend(f, k, v) == [j \in DOMAIN f \cup {k} |-> IF j = k THEN v ELSE f[j]]

\* SELECT ... WHERE repo_id = ? LIMIT 1 against the committed table
QueryFirst(st, rid) ==
  LET m == {r \in st : r.repo_id = rid}
  IN IF m = {} THEN NoRow ELSE CHOOSE r \in m : \A q \in m : r.id <= q.id

\* db.query(Repository).filter_by(owner_username=username).all()
QueryOwner(st, username) == {r \in st : r.owner_username = username}

\* existing_repos[repo.repo_id] = {...}: a later row of the same repo_id replaces an earlier
ExistingRepos(rows) ==
  [rid \in {r.repo_id : r \in rows} |->
     LET m == {r \in rows : r.repo_id = rid}
         last == CHOOSE r \in m : \A q \in m : q.id <= r.id
     IN [updated_at |-> Load(last).updated_at, pk |-> last.id]]

\* ------------------------------------------------------------------------
\* GitHubFetcher.fetch_and_filter_repositories
\* ------------------------------------------------------------------------
NeedsProcessing_always(existing_repos, repo_id, github_updated_at) == TRUE

NeedsProcessing_strict(existing_repos, repo_id, github_updated_at) ==
  IF repo_id \in DOMAIN existing_repos
    THEN ~(compare_datetimes(existing_repos[repo_id].updated_at, github_updated_at) > 0)
    ELSE TRUE

\* lines 115-123: needs_processing stays True unless a stored instant is >= the listed one
NeedsProcessing(existing_repos, repo_id, github_updated_at) ==
  IF repo_id \in DOMAIN existing_repos
    THEN ~(compare_datetimes(existing_repos[repo_id].updated_at, github_updated_at) >= 0)
    ELSE TRUE

RECURSIVE ProcessPage_gather(_)
ProcessPage_gather(ps) ==
  IF ps.pending = <<>>
    THEN IF ps.cur # NoRepo THEN [ps EXCEPT !.pc = "readme"]
         ELSE [ps EXCEPT !.page = @ + 1, !.pc = "page"]
    ELSE
      LET repo == Head(ps.pending)
          seen == [ps EXCEPT !.active = @ \cup {repo.id}, !.pending = Tail(@)]
      IN IF NeedsProcessing(ps.existing_repos, repo.id, parse_github_datetime(repo.updated_at))
           THEN ProcessPage_gather([seen EXCEPT !.cur = repo, !.readmeCalls = @ \cup {repo.id}])
           ELSE ProcessPage_gather([seen EXCEPT !.skipped = @ \cup {repo.id}])

\* the for-loop over the page, run up to its next await or to the end of the page
RECURSIVE ProcessPage(_)
ProcessPage(ps) ==
  IF ps.pending = <<>>
    THEN [ps EXCEPT !.page = @ + 1, !.pc = "page"]
    ELSE
      LET repo == Head(ps.pending) IN
      IF ~ParseOk(repo.updated_at)
        THEN [ps EXCEPT !.pc = "raised", !.exc = "ValueError"]
        ELSE
          LET github_updated_at == parse_github_datetime(repo.updated_at)
              seen == [ps EXCEPT !.active = @ \cup {repo.id}, !.pending = Tail(@)]
          IN IF NeedsProcessing(ps.existing_repos, repo.id, github_updated_at)
               THEN [seen EXCEPT !.pc = "readme", !.cur = repo,
                                 !.twice = IF repo.id \in ps.readmeCalls
                                             THEN @ \cup {repo.id} ELSE @,
                                 !.readmeCalls = @ \cup {repo.id}]
               ELSE ProcessPage([seen EXCEPT !.skipped = @ \cup {repo.id}])

\* fetch_readme_content: the value returned for a response
ReadmeStatuses == {"ok", "empty", "undecodable", "non200"}
ReadmeContent(status) == IF status = "ok" THEN "readme" ELSE None

\* fetch_repository_languages: the value returned for a response
LanguageStatuses == {"ok", "non200"}
LanguagesList(status) == IF status = "ok" THEN <<"Python">> ELSE <<>>

Enriched_flag(repo, readme_content, languages, readme_status) ==
  [id |-> repo.id, meta |-> repo.meta, updated_at |-> repo.updated_at,
   created_at |-> repo.created_at, should_delete |-> FALSE,
   readme_content |-> readme_content, languages_list |-> languages,
   has_readme |-> (readme_status \in {"ok", "empty"}), is_eligible |-> TRUE,
   readme_status |-> readme_status]

\* lines 131-136: the enriched record appended to repositories
Enriched(repo, readme_content, languages, readme_status) ==
  [id |-> repo.id, meta |-> repo.meta, updated_at |-> repo.updated_at,
   created_at |-> repo.created_at, should_delete |-> FALSE,
   readme_content |-> readme_content, languages_list |-> languages,
   has_readme |-> (readme_content # None), is_eligible |-> TRUE,
   readme_status |-> readme_status]

\* ids of a set in increasing order
RECURSIVE SortedSeq(_)
SortedSeq(S) ==
  IF S = {} THEN <<>>
  ELSE LET m == CHOOSE a \in S : \A b \in S : a <= b IN <<m>> \o SortedSeq(S \ {m})

DeletionEntry(repo_id) == [id |-> repo_id, should_delete |-> TRUE, reason |-> "deleted_from_github"]

DeletionEntries_none(existing_repos, active_repo_ids) == <<>>

DeletionEntries_all(existing_repos, active_repo_ids) ==
  LET byId == SortedSeq(DOMAIN existing_repos)
  IN [i \in 1..Len(byId) |-> DeletionEntry(byId[i])]

\* lines 141-151: one deletion entry per stored repo_id that the walk did not see
DeletionEntries(existing_repos, active_repo_ids) ==
  LET gone == {rid \in DOMAIN existing_repos : rid \notin active_repo_ids}
      byPk == SortedSeq({existing_repos[rid].pk : rid \in gone})
  IN [i \in 1..Len(byPk) |->
        DeletionEntry(CHOOSE rid \in gone : existing_repos[rid].pk = byPk[i])]

\* ------------------------------------------------------------------------
\* GitHubFetcher.save_filtered_repositories_to_db
\* ------------------------------------------------------------------------
\* the unit of work the loop builds in the Session: objs is the identity map,
\* dirty the updated objects, gone the objects passed to db.delete, new the added ones
WriterStart(objs) ==
  [objs |-> objs, dirty |-> {}, gone |-> {}, new |-> <<>>,
   processed_count |-> 0, skipped_count |-> 0, deleted_count |-> 0, exc |-> None]

\* a query result as the Session hands it out: the object already in the identity
\* map if there is one (its attributes are not refreshed), else a fresh load
Identity(objs, row) == IF row.id \in DOMAIN objs THEN objs[row.id] ELSE Load(row)

\* lines 167-174
DeleteStep(w, repo_data, st) ==
  LET existing_repo == QueryFirst(st, repo_data.id) IN
  IF existing_repo # NoRow
    THEN [w EXCEPT !.objs = Extend(@, existing_repo.id, Identity(w.objs, existing_repo)),
                   !.gone = @ \cup {existing_repo.id},
                   !.deleted_count = @ + 1]
    ELSE w

\* lines 176-232
UpsertStep(w, repo_data, st, username, current_time) ==
  IF ~ParseOk(repo_data.updated_at) \/ ~ParseOk(repo_data.created_at)
    THEN [w EXCEPT !.exc = "ValueError"]
    ELSE
      LET github_updated_at == parse_github_datetime(repo_data.updated_at)
          row == QueryFirst(st, repo_data.id)
      IN IF row # NoRow
           THEN LET existing_repo == Identity(w.objs, row) IN
                IF compare_datetimes(existing_repo.updated_at, github_updated_at) >= 0
                  THEN [w EXCEPT !.objs = Extend(@, row.id, existing_repo),
                                 !.skipped_count = @ + 1]
                  ELSE [w EXCEPT !.objs = Extend(@, row.id,
                                            UpdateRepository(existing_repo, repo_data, current_time)),
                                 !.dirty = @ \cup {row.id},
                                 !.processed_count = @ + 1]
           ELSE [w EXCEPT !.new = Append(@, NewRepository(repo_data, username, current_time)),
                          !.processed_count = @ + 1]

\* lines 162-232: the loop over the work-list, stopped by the first exception
RECURSIVE SaveLoop(_, _, _, _, _)
SaveLoop(w, repositories, st, username, current_time) ==
  IF repositories = <<>> \/ w.exc # None THEN w
  ELSE LET repo_data == Head(repositories)
           next == IF repo_data.should_delete
                     THEN DeleteStep(w, repo_data, st)
                     ELSE UpsertStep(w, repo_data, st, username, current_time)
       IN SaveLoop(next, Tail(repositories), st, username, current_time)

\* ---- db.commit(): the flush and the constraints of table repositories
MaxPk(st) == IF st = {} THEN 0 ELSE CHOOSE n \in {r.id : r \in st} : \A r \in st : r.id <= n

\* UPDATE ... WHERE id = pk for every dirty object
Updated(st, w) ==
  {IF r.id \in w.dirty THEN Bind(w.objs[r.id]) ELSE r : r \in st}

\* INSERT of the pending objects, each with the next rowid
Inserted(st, w) ==
  st \cup {[Bind(w.new[i]) EXCEPT !.id = MaxPk(st) + i] : i \in 1..Len(w.new)}

Deleted_none(st, w) == st

\* DELETE ... WHERE id = pk for every object passed to db.delete
Deleted(st, w) == {r \in st : r.id \notin w.gone}

\* an UPDATE that matches no row raises StaleDataError
StaleUpdate(st, w) == \E pk \in w.dirty : \A r \in st : r.id # pk

ConstraintsHold_none(rows) == TRUE

\* Column(String, ForeignKey("users.id"), nullable=False) and
\* Column(Integer, unique=True): what the table accepts
ConstraintsHold(rows) ==
  /\ \A r \in rows : r.user_id # None
  /\ \A r, q \in rows : r.repo_id = q.repo_id => r.id = q.id

Commit_partial(w, st) ==
  IF ~ConstraintsHold(Inserted(Updated(st, w), w))
    THEN [ok |-> FALSE, exc |-> "IntegrityError", store |-> Deleted(Updated(st, w), w)]
    ELSE [ok |-> TRUE, exc |-> None, store |-> Deleted(Inserted(Updated(st, w), w), w)]

\* the flush writes updates and inserts, then deletes, in one transaction
Commit(w, st) ==
  LET written == Inserted(Updated(st, w), w) IN
  IF StaleUpdate(st, w) THEN [ok |-> FALSE, exc |-> "StaleDataError", store |-> st]
  ELSE IF ~ConstraintsHold(written) THEN [ok |-> FALSE, exc |-> "IntegrityError", store |-> st]
  ELSE [ok |-> TRUE, exc |-> None, store |-> Deleted(written, w)]

save_filtered_repositories_to_db(repositories, username, objs, st, clock) ==
  LET current_time == now_utc(clock)
      w == SaveLoop(WriterStart(objs), repositories, st, username, current_time)
  IN IF w.exc # None
       THEN [ok |-> FALSE, exc |-> w.exc, store |-> st, result |-> <<0, 0, 0>>]
       ELSE LET c == Commit(w, st) IN
            [ok |-> c.ok, exc |-> c.exc, store |-> c.store,
             result |-> <<w.processed_count, w.skipped_count, w.deleted_count>>]

\* ------------------------------------------------------------------------
\* One pass: refresh_repositories / github_callback, lines 206-210 and 121-128:
\* await fetch_and_filter_repositories(...), then save_filtered_repositories_to_db(...)
\* with no await in between.  Each action runs from one await to the next.
\* ------------------------------------------------------------------------
Min(a, b) == IF a <= b THEN a ELSE b

\* what GET /users/{u}/repos lists, in the order it is served
Listing(u) ==
  LET ids == SortedSeq({rid \in RepoIds : upstream[u][rid] # NoRepo})
  IN [i \in 1..Len(ids) |-> upstream[u][ids[i]]]

\* an exception unwinds the coroutine: its locals are gone, get_database closes the Session
Raise(ps, exc, at) ==
  [IdlePass EXCEPT !.pc = "raised", !.exc = exc, !.raisedAt = at,
                   !.user = ps.user, !.walk = ps.walk, !.prev = ps.prev,
                   !.existing_repos = ps.existing_repos,
                   !.active = ps.active, !.skipped = ps.skipped,
                   !.readmeCalls = ps.readmeCalls, !.langCalls = ps.langCalls,
                   !.twice = ps.twice]

\* after the while-loop: lines 141-153, the return, and the writer called on the result
EndWalk(ps, walk, st, clock) ==
  LET repositories == ps.repositories \o DeletionEntries(ps.existing_repos, ps.active)
      saved == save_filtered_repositories_to_db(repositories, ps.user, ps.objs, st, clock)
      ret == [ps EXCEPT !.walk = walk, !.repositories = repositories, !.objs = EmptyFn,
                        !.clock = clock]
  IN [store |-> saved.store,
      ps |-> IF saved.ok THEN [ret EXCEPT !.pc = "done", !.result = saved.result]
                         ELSE [ret EXCEPT !.pc = "raised", !.exc = saved.exc,
                                          !.raisedAt = "save"]]

Continue_eager(ps, st, clock) ==
  LET nxt == ProcessPage(ps)
      saved == save_filtered_repositories_to_db(ps.repositories, ps.user, ps.objs, st, clock)
  IN [store |-> IF saved.ok THEN saved.store ELSE st,
      ps |-> IF nxt.pc = "raised" THEN Raise(nxt, nxt.exc, "parse") ELSE nxt]

\* run the coroutine on from a point inside the for-loop
Continue(ps, st, clock) ==
  LET nxt == ProcessPage(ps) IN
  [store |-> st, ps |-> IF nxt.pc = "raised" THEN Raise(nxt, nxt.exc, "parse") ELSE nxt]

\* lines 72-95: the prior-state snapshot, then the request for page 1
StartPass(p, u) ==
  /\ pass[p].pc \in {"idle", "done"}
  /\ passes < MaxPasses
  /\ LET db_repos == QueryOwner(store, u) IN
     pass' = [pass EXCEPT ![p] =
       [IdlePass EXCEPT
          !.pc = "page", !.user = u,
          !.existing_repos = ExistingRepos(db_repos),
          !.objs = [pk \in {r.id : r \in db_repos} |->
                      Load(CHOOSE r \in db_repos : r.id = pk)],
          !.walk = "walking",
          !.prev = IF pass[p].pc = "done" /\ pass[p].user = u
                     THEN [walk |-> pass[p].walk, result |-> pass[p].result]
                     ELSE NoPrev]]
  /\ passes' = passes + 1
  /\ UNCHANGED <<store, upstream, dt, analysis>>

NotRepos_short(repos) == Len(repos) < ServerPage

\* line 101, `if not repos`: the page holds no record
NotRepos(repos) == repos = <<>>

\* lines 86-102: the answer to the request for page ps.page
\* GitHub pages by offset: when the listing shifts between two requests (shift = 1)
\* the last record of one page is served again as the first of the next
PageResponse(p, sizes, shifts) ==
  LET ps == pass[p]
      all == Listing(ps.user)
  IN /\ ps.pc = "page"
     /\ \E kind \in {"ok", "status", "error"}, k \in sizes, shift \in shifts :
          LET from == IF ps.offset > 0 /\ ps.offset < Len(all)
                        THEN ps.offset - shift ELSE ps.offset
              rest == SubSeq(all, from + 1, Len(all))
              n == Min(Min(k, per_page), Len(rest))
          IN
          /\ LET out ==
                   CASE kind = "error" -> [store |-> store, ps |-> Raise(ps, "TransportError", "page")]
                     [] kind = "status" -> EndWalk(ps, "failed", store, passes)
                     [] NotRepos(SubSeq(rest, 1, n)) -> EndWalk(ps, "empty", store, passes)
                     [] OTHER -> Continue([ps EXCEPT !.pending = SubSeq(rest, 1, n),
                                                     !.offset = from + n], store, passes)
             IN /\ pass' = [pass EXCEPT ![p] = out.ps]
                /\ store' = out.store
     /\ UNCHANGED <<upstream, passes, dt, analysis>>

\* lines 27-43 and 127: the answer to the README request of the current item
ReadmeResponse(p, statuses) ==
  LET ps == pass[p] IN
  /\ ps.pc = "readme"
  /\ \E status \in statuses \cup {"error"} :
       pass' = [pass EXCEPT ![p] =
         IF status = "error" THEN Raise(ps, "TransportError", "readme")
         ELSE [ps EXCEPT !.pc = "langs",
                         !.readme_content = ReadmeContent(status),
                         !.readme_status = status,
                         !.twice = IF ps.cur.id \in ps.langCalls
                                     THEN @ \cup {ps.cur.id} ELSE @,
                         !.langCalls = @ \cup {ps.cur.id}]]
  /\ UNCHANGED <<store, upstream, passes, dt, analysis>>

\* lines 45-56 and 128-136: the answer to the languages request, then on with the loop
LanguagesResponse(p, statuses) ==
  LET ps == pass[p] IN
  /\ ps.pc = "langs"
  /\ \E status \in statuses \cup {"error"} :
       LET out ==
             IF status = "error"
               THEN [store |-> store, ps |-> Raise(ps, "TransportError", "languages")]
               ELSE Continue(
                      [ps EXCEPT !.repositories =
                                    Append(@, Enriched(ps.cur, ps.readme_content,
                                                       LanguagesList(status), ps.readme_status)),
                                 !.cur = NoRepo, !.readme_content = None,
                                 !.readme_status = None],
                      store, passes)
       IN /\ pass' = [pass EXCEPT ![p] = out.ps]
          /\ store' = out.store
  /\ UNCHANGED <<upstream, passes, dt, analysis>>

\* ---- the environment: GitHub
NoListing == [rid \in RepoIds |-> NoRepo]

Upstreams ==
  {f \in [RepoIds -> {NoRepo} \cup {UpstreamRepo(rid, t) : rid \in RepoIds, t \in Instants}] :
     \A rid \in RepoIds : f[rid] # NoRepo => f[rid].id = rid}

\* ---- the table when the process starts: any rows the schema accepts
UserOf(owner) == "u_" \o owner

\* every row was last modified at instant 1; the listing has older, equal and newer ones
InitStores(owners) ==
  {{StoredRow(rid, UserOf(own[rid]), rid, own[rid], 1) : rid \in {k \in RepoIds : own[k] # None}} :
     own \in [RepoIds -> owners \cup {None}]}

Init ==
  /\ store \in InitStores({"x"})
  /\ upstream \in {[u \in Owners |-> IF u = "x" THEN f ELSE NoListing] : f \in Upstreams}
  /\ pass = [p \in PassIds |-> IdlePass]
  /\ passes = 0
  /\ dt = NoTimestamp
  /\ analysis = NoAnalyzer

Next ==
  \/ \E p \in PassIds : StartPass(p, "x")
  \/ \E p \in PassIds : PageResponse(p, {ServerPage}, {0})
  \/ \E p \in PassIds : ReadmeResponse(p, {"ok", "non200"})
  \/ \E p \in PassIds : LanguagesResponse(p, {"ok"})

Spec == Init /\ [][Next]_vars

\* ---- two accounts on one table: every repository belongs to one account upstream,
\* whoever owns the stored row; the listing may shift while it is walked
SharedUpstreams ==
  {[u \in Owners |->
      [rid \in RepoIds |-> IF own[rid] = u THEN UpstreamRepo(rid, MaxTime) ELSE NoRepo]] :
     own \in [RepoIds -> Owners \cup {None}]}

InitShared ==
  /\ store \in InitStores(Owners)
  /\ upstream \in SharedUpstreams
  /\ pass = [p \in PassIds |-> IdlePass]
  /\ passes = 0
  /\ dt = NoTimestamp
  /\ analysis = NoAnalyzer

NextShared ==
  \/ \E p \in PassIds, u \in Owners : StartPass(p, u)
  \/ \E p \in PassIds : PageResponse(p, {ServerPage}, {0, 1})
  \/ \E p \in PassIds : ReadmeResponse(p, {"ok"})
  \/ \E p \in PassIds : LanguagesResponse(p, {"ok"})

SpecShared == InitShared /\ [][NextShared]_vars

\* ---- two requests at a time: refresh_repositories and github_callback are async
\* handlers that take no lock, so a second request for the same account can be
\* started at any await of the first; each request has its own Session
Requests == {1, 2}

\* every listed repository was modified after the rows were stored
ConcurrentUpstreams ==
  {f \in Upstreams : \A rid \in RepoIds : f[rid] # NoRepo => f[rid].updated_at.wall = MaxTime}

InitConcurrent ==
  /\ store \in InitStores({"x"})
  /\ upstream \in {[u \in Owners |-> IF u = "x" THEN f ELSE NoListing] : f \in ConcurrentUpstreams}
  /\ pass = [p \in Requests |-> IdlePass]
  /\ passes = 0
  /\ dt = NoTimestamp
  /\ analysis = NoAnalyzer

NextConcurrent ==
  \/ \E p \in Requests : StartPass(p, "x")
  \/ \E p \in Requests : PageResponse(p, {ServerPage}, {0})
  \/ \E p \in Requests : ReadmeResponse(p, {"ok"})
  \/ \E p \in Requests : LanguagesResponse(p, {"ok"})

SpecConcurrent == InitConcurrent /\ [][NextConcurrent]_vars

\* ---- two requests at a time while the owner pushes to the first repository:
\* GitHub then lists it at a later instant
UpstreamPush ==
  /\ upstream["x"][1] # NoRepo
  /\ upstream["x"][1].updated_at.wall = MaxTime
  /\ upstream' = [upstream EXCEPT !["x"][1] = UpstreamRepo(1, MaxTime + 1)]
  /\ UNCHANGED <<store, pass, passes, dt, analysis>>

NextInterleaved ==
  \/ NextConcurrent
  \/ UpstreamPush

SpecInterleaved == InitConcurrent /\ [][NextInterleaved]_vars

\* ---- every answer the README and the languages request can get
InitReadme ==
  /\ store \in InitStores({"x"})
  /\ upstream \in {[u \in Owners |-> IF u = "x" THEN f ELSE NoListing] : f \in ConcurrentUpstreams}
  /\ pass = [p \in PassIds |-> IdlePass]
  /\ passes = 0
  /\ dt = NoTimestamp
  /\ analysis = NoAnalyzer

NextReadme ==
  \/ \E p \in PassIds : StartPass(p, "x")
  \/ \E p \in PassIds : PageResponse(p, {ServerPage}, {0})
  \/ \E p \in PassIds : ReadmeResponse(p, ReadmeStatuses)
  \/ \E p \in PassIds : LanguagesResponse(p, LanguageStatuses)

SpecReadme == InitReadme /\ [][NextReadme]_vars

\* ---- a listing in which records may carry an updated_at that is not ISO-8601
MalformedRepo(rid) ==
  [UpstreamRepo(rid, MaxTime) EXCEPT !.updated_at = IsoText(MaxTime, "not-a-date")]

MalformedUpstreams ==
  {[rid \in RepoIds |->
      CASE kind[rid] = "absent" -> NoRepo
        [] kind[rid] = "malformed" -> MalformedRepo(rid)
        [] OTHER -> UpstreamRepo(rid, MaxTime)] :
     kind \in [RepoIds -> {"absent", "listed", "malformed"}]}

InitMalformed ==
  /\ store \in InitStores({"x"})
  /\ upstream \in {[u \in Owners |-> IF u = "x" THEN f ELSE NoListing] : f \in MalformedUpstreams}
  /\ pass = [p \in PassIds |-> IdlePass]
  /\ passes = 0
  /\ dt = NoTimestamp
  /\ analysis = NoAnalyzer

NextMalformed ==
  \/ \E p \in PassIds : StartPass(p, "x")
  \/ \E p \in PassIds : PageResponse(p, {ServerPage}, {0})
  \/ \E p \in PassIds : ReadmeResponse(p, {"ok"})
  \/ \E p \in PassIds : LanguagesResponse(p, {"ok"})

SpecMalformed == InitMalformed /\ [][NextMalformed]_vars

\* ---- one timestamp through the column type and DateTimeManager
Offsets == {-1, 0, 1}
Datetimes == {Aware(w, o) : w \in Instants, o \in Offsets} \cup {Naive(w) : w \in Instants}

\* the Z-suffixed ISO-8601 text of an instant: its UTC reading followed by Z
FormatZ(t) == IsoText(IF t.aware THEN t.wall - t.off ELSE t.wall, "Z")

\* the value is written to a UTCDateTime column and loaded again
ColumnRoundTrip ==
  /\ dt.pc = "input"
  /\ dt' = [dt EXCEPT !.pc = "loaded", !.loaded = TRUE,
                       !.t = process_result_value(process_bind_param(dt.t))]
  /\ UNCHANGED <<store, upstream, pass, passes, analysis>>

FormatTimestamp ==
  /\ dt.pc \in {"input", "loaded"}
  /\ dt' = [dt EXCEPT !.pc = "formatted", !.text = FormatZ(dt.t)]
  /\ UNCHANGED <<store, upstream, pass, passes, analysis>>

ParseTimestamp ==
  /\ dt.pc = "formatted"
  /\ dt' = IF ParseOk(dt.text)
             THEN [dt EXCEPT !.pc = "parsed", !.v = parse_github_datetime(dt.text)]
             ELSE [dt EXCEPT !.pc = "raised"]
  /\ UNCHANGED <<store, upstream, pass, passes, analysis>>

CompareTimestamp ==
  /\ dt.pc = "parsed"
  /\ \E b \in Datetimes \cup {dt.t} :
       dt' = [dt EXCEPT !.pc = "compared", !.b = b, !.cmp = compare_datetimes(dt.v, b)]
  /\ UNCHANGED <<store, upstream, pass, passes, analysis>>

\* three values compared with one another
OrderTimestamps ==
  /\ dt.pc \in {"input", "loaded"}
  /\ \E b \in Datetimes, c \in Datetimes :
       dt' = [dt EXCEPT !.pc = "ordered", !.b = b, !.c = c,
                        !.cmp = compare_datetimes(dt.t, b),
                        !.ba = compare_datetimes(b, dt.t),
                        !.bc = compare_datetimes(b, c),
                        !.tc = compare_datetimes(dt.t, c)]
  /\ UNCHANGED <<store, upstream, pass, passes, analysis>>

InitDatetime ==
  /\ store = {}
  /\ upstream = [u \in Owners |-> NoListing]
  /\ pass = [p \in PassIds |-> IdlePass]
  /\ passes = 0
  /\ dt \in {[NoTimestamp EXCEPT !.pc = "input", !.t = t] : t \in Datetimes}
  /\ analysis = NoAnalyzer

NextDatetime ==
  \/ ColumnRoundTrip
  \/ FormatTimestamp
  \/ ParseTimestamp
  \/ CompareTimestamp
  \/ OrderTimestamps

SpecDatetime == InitDatetime /\ [][NextDatetime]_vars

\* ------------------------------------------------------------------------
\* RepositoryAnalyzer (services/repo_analyzer.py) on table project_analysis.
\* A repository is named after its repo_id.
\* ------------------------------------------------------------------------
\* a ProjectAnalysis row; first and changes record the status it was inserted with
\* and how often its committed status has changed since
ProjectAnalysis(id, repo_id, username, status) ==
  [id |-> id, repo_id |-> repo_id, user_github_username |-> username,
   analysis_status |-> status, first |-> status, changes |-> 0]

\* db.query(Repository).filter_by(repo_name=repo_name, owner_username=username).first()
RepoByName(st, repo_name, username) ==
  LET m == {r \in st : r.repo_id = repo_name /\ r.owner_username = username}
  IN IF m = {} THEN NoRow ELSE CHOOSE r \in m : \A q \in m : r.id <= q.id

ExistingAnalysis_completed(rows, repo_id, username) ==
  {a \in rows : /\ a.repo_id = repo_id /\ a.user_github_username = username
                /\ a.analysis_status = "completed"}

\* lines 123-126: the analysis rows of the repository for the user, whatever their status
ExistingAnalysis(rows, repo_id, username) ==
  {a \in rows : a.repo_id = repo_id /\ a.user_github_username = username}

NextAnalysisId(rows) ==
  IF rows = {} THEN 1 ELSE 1 + CHOOSE n \in {a.id : a \in rows} : \A a \in rows : a.id <= n

Result(repo_name, status, had) == [repo_name |-> repo_name, status |-> status, had |-> had]

\* analysis.analysis_status = status followed by db.commit()
SetStatus(rows, id, status) ==
  {IF a.id = id THEN [a EXCEPT !.analysis_status = status, !.changes = @ + 1] ELSE a : a \in rows}

\* the repo_names of a request: one name, or two (the same name twice included)
NameLists == {<<a>> : a \in RepoIds} \cup {<<a, b>> : a, b \in RepoIds}

\* analyze_repositories is called
StartAnalysis ==
  /\ analysis.pc \in {"idle", "returned"}
  /\ analysis.calls < MaxPasses
  /\ \E repo_names \in NameLists :
       analysis' = [analysis EXCEPT !.pc = "loop", !.repo_names = repo_names,
                                    !.username = "x", !.results = <<>>,
                                    !.calls = @ + 1]
  /\ UNCHANGED <<store, upstream, pass, passes, dt>>

\* lines 108-149: one turn of the loop up to the call of analyze_single_repository
AnalyzeNext ==
  /\ analysis.pc = "loop"
  /\ IF analysis.repo_names = <<>>
       THEN analysis' = [analysis EXCEPT !.pc = "returned"]
       ELSE
         LET repo_name == Head(analysis.repo_names)
             rest == [analysis EXCEPT !.repo_names = Tail(@)]
             repo == RepoByName(store, repo_name, analysis.username)
             had == ExistingAnalysis(analysis.rows, repo_name, analysis.username) # {}
         IN IF repo = NoRow
              THEN analysis' = [rest EXCEPT !.results = Append(@, Result(repo_name, "not_found", had))]
            ELSE IF ExistingAnalysis(analysis.rows, repo.repo_id, analysis.username) # {}
              THEN analysis' = [rest EXCEPT !.results =
                                   Append(@, Result(repo_name, "already_analyzed", had))]
            ELSE analysis' =
                   [rest EXCEPT !.rows = @ \cup {ProjectAnalysis(NextAnalysisId(analysis.rows),
                                                                 repo.repo_id, analysis.username,
                                                                 "pending")},
                                !.pc = "analyzing", !.repo_id = repo.repo_id,
                                !.analysis_id = NextAnalysisId(analysis.rows),
                                !.runs = [@ EXCEPT ![repo.repo_id] = @ + 1]]
  /\ UNCHANGED <<store, upstream, pass, passes, dt>>

\* lines 173-248 and 154-163: analyze_single_repository ends
\*   completed: the record is filled in and committed (lines 213-233)
\*   failed:    clone, LLM or validation failed, the record is marked failed (235-243)
\*   db_error:  the commit of either update failed, the record stays as it was (244-245)
AnalysisEnds ==
  /\ analysis.pc = "analyzing"
  /\ \E outcome \in {"completed", "failed", "db_error"} :
       analysis' =
         [analysis EXCEPT
            !.pc = "loop",
            !.rows = IF outcome = "db_error" THEN @
                     ELSE SetStatus(@, analysis.analysis_id, outcome),
            !.results = Append(@, Result(analysis.repo_id,
                                         IF outcome = "completed" THEN "completed" ELSE "failed",
                                         FALSE))]
  /\ UNCHANGED <<store, upstream, pass, passes, dt>>

\* the table when the process starts: analyses of earlier runs, in any status
EarlierAnalyses ==
  {{[ProjectAnalysis(rid, rid, "x", "pending") EXCEPT
       !.analysis_status = was[rid], !.changes = IF was[rid] = "pending" THEN 0 ELSE 1] :
      rid \in {k \in RepoIds : was[k] # None}} :
     was \in [RepoIds -> {None, "pending", "completed", "failed"}]}

\* every repository but possibly the last is stored for the user
AnalysisStores ==
  {st \in InitStores({"x"}) : \A rid \in RepoIds \ {MaxRepoId} : \E r \in st : r.repo_id = rid}

InitAnalysis ==
  /\ store \in AnalysisStores
  /\ upstream = [u \in Owners |-> NoListing]
  /\ pass = [p \in PassIds |-> IdlePass]
  /\ passes = 0
  /\ dt = NoTimestamp
  /\ analysis \in {[NoAnalyzer EXCEPT !.rows = rows] : rows \in EarlierAnalyses}

NextAnalysis ==
  \/ StartAnalysis
  \/ AnalyzeNext
  \/ AnalysisEnds

SpecAnalysis == InitAnalysis /\ [][NextAnalysis]_vars

\* ------------------------------------------------------------------------
\* Properties
\* ------------------------------------------------------------------------
\* the fetch phase returned and the writer ran (it committed or it raised)
Ended(ps) == ps.pc \in {"done", "raised"} /\ ps.walk \in {"empty", "failed"}

Entries(ps) == {ps.repositories[i] : i \in 1..Len(ps.repositories)}
Upserts(ps) == {e \in Entries(ps) : ~e.should_delete}
Removals(ps) == {e \in Entries(ps) : e.should_delete}

Listed(u) == {rid \in RepoIds : upstream[u][rid] # NoRepo}
ListedAt(u, rid) == upstream[u][rid].updated_at.wall
StoredAt(ps, rid) == UtcOf(ps.existing_repos[rid].updated_at)
Prior(ps) == DOMAIN ps.existing_repos

\* the classification of section 4.4, from the instants themselves
Unchanged(ps, rid) == rid \in Prior(ps) /\ StoredAt(ps, rid) >= ListedAt(ps.user, rid)

\* C1: a pass whose page walk ended on a non-success status deletes no row of the
\* account: every repository stored for it before the pass is still stored after
C1_DeletionSafety ==
  \A p \in PassIds :
    LET ps == pass[p] IN
    (Ended(ps) /\ ps.walk = "failed") =>
      \A rid \in Prior(ps) :
        \E r \in store : r.repo_id = rid /\ r.owner_username = ps.user

\* C2: the second of two passes in succession over an unchanged listing returns
\* processed = 0, skipped = number of rows stored before it, deleted = 0, and
\* leaves the table as it was
C2_Idempotence ==
  [][\A p \in PassIds :
       (/\ pass[p].pc # "done" /\ pass'[p].pc = "done"
        /\ pass'[p].walk = "empty" /\ pass'[p].prev.walk = "empty")
       => /\ pass'[p].result = <<0, Cardinality(QueryOwner(store, pass'[p].user)), 0>>
          /\ store' = store]_vars

C3_Scenario(ps) ==
  /\ Ended(ps) /\ ps.walk = "empty"
  /\ Cardinality(Prior(ps)) = 2
  /\ Cardinality(Listed(ps.user)) = 3
  /\ Prior(ps) \subseteq Listed(ps.user)
  /\ \A rid \in Prior(ps) : StoredAt(ps, rid) = ListedAt(ps.user, rid)

\* C3: prior state {A, B}, complete listing {A, B, C} with A and B at their stored
\* instants: the pass returns (1, 2, 0) and the table then has a row for C holding
\* the README and languages fetched in the pass
C3_NewItemDetection ==
  \A p \in PassIds :
    LET ps == pass[p] IN
    C3_Scenario(ps) =>
      /\ ps.pc = "done"
      /\ ps.result = <<1, 2, 0>>
      /\ \A e \in Upserts(ps) :
           \E r \in store :
             /\ r.repo_id = e.id
             /\ r.readme_content = e.readme_content
             /\ r.has_readme = e.has_readme
             /\ r.languages_list = JsonDumps(e.languages_list)
      /\ \A rid \in Listed(ps.user) : \E r \in store : r.repo_id = rid

C4_Scenario(ps) ==
  /\ Ended(ps) /\ ps.walk = "empty"
  /\ Cardinality(Prior(ps)) = 3
  /\ Cardinality(Listed(ps.user)) = 2
  /\ Listed(ps.user) \subseteq Prior(ps)

\* C4: prior state {A, B, C}, complete listing {A, C}: the pass returns deleted = 1,
\* B has no row afterwards, A and C still have theirs
C4_DeletionDetection ==
  \A p \in PassIds :
    LET ps == pass[p] IN
    C4_Scenario(ps) =>
      /\ ps.pc = "done"
      /\ ps.result[3] = 1
      /\ \A rid \in Prior(ps) \ Listed(ps.user) : \A r \in store : r.repo_id # rid
      /\ \A rid \in Listed(ps.user) :
           \E r \in store : r.repo_id = rid /\ r.owner_username = ps.user

C4_Witness ==
  \E p \in PassIds : C4_Scenario(pass[p]) /\ pass[p].pc = "done" /\ pass[p].result[3] = 1

\* C5: within a pass no item classified UNCHANGED (stored instant >= listed instant,
\* equality included) gets a README or a languages request, every item classified NEW
\* or CHANGED gets its README request once and its languages request once, the latter
\* issued when the README request has answered, and no request is issued twice
C5_EnrichOnlyWhenNeeded ==
  \A p \in PassIds :
    LET ps == pass[p] IN
    /\ ps.twice = {}
    /\ ps.langCalls \subseteq ps.readmeCalls
    /\ ps.readmeCalls \subseteq ps.active
    /\ \A rid \in ps.active :
         IF Unchanged(ps, rid)
           THEN rid \notin ps.readmeCalls /\ rid \notin ps.langCalls
           ELSE /\ rid \in ps.readmeCalls
                /\ rid \notin ps.langCalls =>
                     \/ ps.pc = "readme" /\ ps.cur.id = rid
                     \/ ps.pc = "raised" /\ ps.raisedAt = "readme"

C5_Witness ==
  \E p \in PassIds :
    LET ps == pass[p] IN
    /\ ps.pc = "done" /\ ps.walk = "empty"
    /\ \E rid \in ps.active : Unchanged(ps, rid) /\ StoredAt(ps, rid) = ListedAt(ps.user, rid)
    /\ \E rid \in ps.active : ~Unchanged(ps, rid) /\ rid \in ps.readmeCalls \cap ps.langCalls

C6_Distinct(ps) ==
  (ps.pc = "done" /\ ps.walk = "failed" /\ ps.prev.walk = "empty")
    => ps.result # ps.prev.result

C6_Returns(ps) == ~(ps.pc = "raised" /\ ps.raisedAt = "page")

\* C6: a pass whose listing ended on a failed page request returns normally, and what
\* it returns differs from what a pass whose listing ended on an empty page returns
C6_PageFailureDistinguishable ==
  \A p \in PassIds : C6_Distinct(pass[p]) /\ C6_Returns(pass[p])

\* C7: when the writer fails (an exception in its loop or a constraint violation at
\* commit) the committed table is what it was before the call and the exception
\* reaches the caller
C7_WriterAtomicity ==
  [][\A p \in PassIds :
       (pass[p].pc # "raised" /\ pass'[p].pc = "raised" /\ pass'[p].raisedAt = "save")
       => (store' = store /\ pass'[p].exc # None)]_vars

\* the writer failed on a work-list that also held a deletion or the update of a stale row
C7_Witness ==
  \E p \in PassIds :
    LET ps == pass[p] IN
    /\ ps.pc = "raised" /\ ps.raisedAt = "save" /\ ps.exc = "IntegrityError"
    /\ Removals(ps) # {}
    /\ \E e \in Upserts(ps) : e.id \in Prior(ps)

Queued(ps) == {e.id : e \in Upserts(ps)} \cup (IF ps.cur = NoRepo THEN {} ELSE {ps.cur.id})

\* C9: an item is NEW when the prior state has no row for its id, UNCHANGED when the
\* stored instant is >= the listed one, CHANGED when it is strictly older; the items
\* queued for upsert are the NEW and CHANGED ones
C9_ChangeClassification ==
  \A p \in PassIds :
    LET ps == pass[p] IN
    (ps.pc \in {"page", "readme", "langs", "done"} \/ Ended(ps)) =>
      /\ Queued(ps) \cup ps.skipped = ps.active
      /\ \A rid \in ps.active :
           /\ rid \notin Prior(ps) => rid \in Queued(ps)
           /\ (rid \in Prior(ps) /\ StoredAt(ps, rid) >= ListedAt(ps.user, rid))
                => (rid \in ps.skipped /\ rid \notin Queued(ps))
           /\ (rid \in Prior(ps) /\ StoredAt(ps, rid) < ListedAt(ps.user, rid))
                => (rid \in Queued(ps) /\ rid \notin ps.skipped)

\* one walk that met a NEW item, a CHANGED one and one stored at the listed instant
C9_Witness ==
  \E p \in PassIds :
    LET ps == pass[p] IN
    /\ Ended(ps) /\ ps.walk = "empty"
    /\ \E rid \in ps.active : rid \notin Prior(ps)
    /\ \E rid \in ps.active \cap Prior(ps) : StoredAt(ps, rid) = ListedAt(ps.user, rid)
    /\ \E rid \in ps.active \cap Prior(ps) : StoredAt(ps, rid) < ListedAt(ps.user, rid)

\* C10: a NEW or CHANGED repository whose README request answered with a non-success
\* status is upserted all the same, with has_readme false and no readme_content, and
\* the pass completes
C10_EnrichmentAbsenceTolerance ==
  \A p \in PassIds :
    LET ps == pass[p] IN
    Ended(ps) =>
      \A e \in Upserts(ps) :
        e.readme_status = "non200" =>
          /\ ps.pc = "done"
          /\ \E r \in store :
               r.repo_id = e.id /\ ~r.has_readme /\ r.readme_content = None

\* C8: after any sequence of passes, for one account or several, the table holds at
\* most one row per repo_id, hence at most one per (owner_username, repo_id)
C8_StoreUniqueness ==
  \A r, q \in store : r.repo_id = q.repo_id => r = q

\* a pass ended whose work-list held two upserts of one repo_id
C8_Witness ==
  \E p \in PassIds :
    LET ps == pass[p] IN
    /\ Ended(ps)
    /\ \E i, j \in 1..Len(ps.repositories) :
         /\ i < j
         /\ ~ps.repositories[i].should_delete /\ ~ps.repositories[j].should_delete
         /\ ps.repositories[i].id = ps.repositories[j].id

\* C11: the walk asks for pages 1, 2, 3, ... one after the other with per_page = 100;
\* it goes on after every page that holds a record, however short, and the only answer
\* with a success status that ends it is a page without records, so that every record
\* of the listing has been classified by then
C11_PaginationTermination ==
  [][\A p \in PassIds :
       LET ps == pass[p]
           qs == pass'[p]
       IN /\ per_page = 100
          /\ (ps.pc = "idle" \/ ps.pc = "done" \/ ps.pc = "raised") /\ qs.pc = "page" => qs.page = 1
          /\ (ps.pc \in {"page", "readme", "langs"} /\ qs.pc \in {"page", "readme", "langs", "done"})
               => /\ qs.page \in {ps.page, ps.page + 1}
                  /\ qs.page = ps.page + 1 => (qs.pc = "page" /\ qs.offset > 0)
          /\ (ps.walk = "walking" /\ qs.walk = "empty")
               => /\ ps.pc = "page"
                  /\ ps.offset = Len(Listing(ps.user))
                  /\ qs.active = Listed(ps.user)
                  /\ qs.page = (ps.offset + ServerPage - 1) \div ServerPage + 1]_vars

\* a walk that went past a short page: two pages with records, the second not full
C11_Witness ==
  \E p \in PassIds :
    LET ps == pass[p] IN
    /\ ps.pc = "done" /\ ps.walk = "empty" /\ ps.page = 3
    /\ Cardinality(Listed(ps.user)) > ServerPage
    /\ Cardinality(Listed(ps.user)) < 2 * ServerPage
    /\ ps.active = Listed(ps.user)

C12_Scenario(ps) == Ended(ps) /\ ps.walk = "empty" /\ Listed(ps.user) = {}

\* C12: a pass whose listing completed with a success status and no repository at all
\* deletes every row stored for the account before it and returns deleted = the
\* number of those rows
C12_EmptyUpstream ==
  \A p \in PassIds :
    LET ps == pass[p] IN
    C12_Scenario(ps) =>
      /\ ps.pc = "done"
      /\ ps.result[3] = Cardinality(Prior(ps))
      /\ QueryOwner(store, ps.user) = {}
      /\ \A rid \in Prior(ps) : \A r \in store : r.repo_id # rid

\* the account had several rows and its listing came back empty
C12_Witness ==
  \E p \in PassIds :
    LET ps == pass[p] IN
    /\ C12_Scenario(ps) /\ ps.pc = "done"
    /\ Cardinality(Prior(ps)) >= 2
    /\ ps.result[3] = Cardinality(Prior(ps))

OwnedByOthers(st, u) == {r \in st : r.owner_username # u}

\* C13: no step of a pass for one account creates, changes or deletes a row whose
\* owner_username is another account, whatever the listings hold (a listing may hold
\* a repo_id that is stored under the other account)
C13_CrossAccountIndependence ==
  [][\A p \in PassIds :
       pass'[p].pc \in {"done", "raised"} /\ pass'[p].user = pass[p].user
         => OwnedByOthers(store', pass[p].user) = OwnedByOthers(store, pass[p].user)]_vars

InFlight(ps) == ps.pc \in {"page", "readme", "langs"}

\* C14: at any time at most one pass is in flight for an account: two requests that
\* are both between their snapshot and their commit work for different accounts
C14_PerAccountSerialization ==
  \A p, q \in DOMAIN pass :
    (p # q /\ InFlight(pass[p]) /\ InFlight(pass[q])) => pass[p].user # pass[q].user

\* C15: an instant t written as Z-suffixed ISO-8601 text and parsed by
\* parse_github_datetime gives a value v with compare_datetimes(v, t) = 0, for t with
\* an offset, for t without one, and for t as loaded back from the table
C15_TimestampRoundTrip ==
  (dt.pc = "compared" /\ dt.b = dt.t) => dt.cmp = 0

\* the round trip of a value without offset, and of one loaded from the table that
\* went in with an offset other than UTC
C15_Witness ==
  /\ dt.pc = "compared" /\ dt.b = dt.t /\ dt.cmp = 0
  /\ ~dt.t.aware \/ dt.loaded

\* positions of the upsert entries of one repo_id in the work-list
Occurrences(ps, rid) ==
  {i \in 1..Len(ps.repositories) :
     ~ps.repositories[i].should_delete /\ ps.repositories[i].id = rid}

\* C16: when the listing served one repo_id twice within a pass, the pass completes and
\* the row stored for that repo_id afterwards holds the data of the occurrence seen last
C16_DuplicateIdentifier ==
  \A p \in PassIds :
    LET ps == pass[p] IN
    Ended(ps) =>
      \A rid \in RepoIds :
        Cardinality(Occurrences(ps, rid)) >= 2 =>
          LET last == ps.repositories[CHOOSE i \in Occurrences(ps, rid) :
                                        \A j \in Occurrences(ps, rid) : j <= i]
          IN /\ ps.pc = "done"
             /\ \E r \in store :
                  /\ r.repo_id = rid
                  /\ r.meta = last.meta
                  /\ r.updated_at = process_bind_param(parse_github_datetime(last.updated_at))
                  /\ r.readme_content = last.readme_content
                  /\ r.languages_list = JsonDumps(last.languages_list)

WellFormed(u) == {rid \in Listed(u) : ParseOk(upstream[u][rid].updated_at)}

\* C17: a record whose updated_at does not parse is left out of the pass on its own:
\* the pass does not end on the parse failure, and when its walk has completed every
\* other record of the listing has been classified and, when NEW or CHANGED, is
\* among the upserts handed to the writer
C17_MalformedTimestampContainment ==
  \A p \in PassIds :
    LET ps == pass[p] IN
    /\ ~(ps.pc = "raised" /\ ps.raisedAt = "parse")
    /\ (Ended(ps) /\ ps.walk = "empty") =>
         \A rid \in WellFormed(ps.user) :
           /\ rid \in ps.active
           /\ ~Unchanged(ps, rid) => rid \in {e.id : e \in Upserts(ps)}

\* C18: a failed README or languages lookup (transport error, non-success status,
\* undecodable payload) never ends the pass: the item is queued with no content /
\* an empty language list and the walk goes on
C18_EnrichmentFailuresNotFatal ==
  \A p \in PassIds :
    LET ps == pass[p] IN
    /\ ~(ps.pc = "raised" /\ ps.raisedAt \in {"readme", "languages"})
    /\ \A e \in Upserts(ps) :
         e.readme_status # "ok" => (e.readme_content = None /\ ~e.has_readme)

\* the row of rid as the writer of this pass leaves it
WrittenBy(ps, st, rid) ==
  \E r \in st :
    /\ r.repo_id = rid
    /\ r.updated_at = ListedAt(ps.user, rid)
    /\ r.fetched_at = ps.clock

C19_InWorkList(ps) ==
  \A rid \in ps.active : ~Unchanged(ps, rid) => rid \in {e.id : e \in Upserts(ps)}

\* C19: when the walk ended on a page request with a non-success status, every NEW or
\* CHANGED item of the pages before it is an upsert entry of the work-list and the
\* writer of the same pass has written its row
C19_PartialResults ==
  \A p \in PassIds :
    LET ps == pass[p] IN
    (Ended(ps) /\ ps.walk = "failed") =>
      /\ C19_InWorkList(ps)
      /\ \A rid \in ps.active : ~Unchanged(ps, rid) => WrittenBy(ps, store, rid)

\* the columns other than created_at that the claim lists, as the entry e gives them
C20_Overwritten(r, e, clock) ==
  /\ r.repo_id = e.id
  /\ r.meta = e.meta
  /\ r.updated_at = process_bind_param(parse_github_datetime(e.updated_at))
  /\ r.fetched_at = process_bind_param(now_utc(clock))
  /\ r.has_readme = e.has_readme
  /\ r.readme_content = e.readme_content
  /\ r.languages_list = JsonDumps(e.languages_list)

\* C20: after the writer has applied a work-list, the row of every upsert entry holds
\* the entry's values in every mutable column (name, URL, description, language,
\* topics, created_at, updated_at, stars, forks, has_readme, readme_content,
\* languages_list) and fetched_at is the instant of the pass, whether the row was
\* there before or was inserted
C20_UpsertSemantics ==
  \A p \in PassIds :
    LET ps == pass[p] IN
    (Ended(ps) /\ ps.pc = "done") =>
      \A e \in Upserts(ps) :
        \E r \in store :
          /\ C20_Overwritten(r, e, ps.clock)
          /\ r.created_at = process_bind_param(parse_github_datetime(e.created_at))

\* the listing of u holds the repository of row r at an instant not after the stored one
NotNewer(u, r) ==
  /\ r.owner_username = u
  /\ r.repo_id \in Listed(u)
  /\ ListedAt(u, r.repo_id) <= r.updated_at

\* C21: a pass changes a stored row only when the listing holds it at an instant
\* strictly after the stored one; a row that the listing holds at an instant <= the
\* stored one is in the table after the pass with every column, fetched_at included,
\* as before
C21_UnchangedRowsUntouched ==
  [][\A p \in PassIds :
       pass'[p] # pass[p] =>
         \A r \in store :
           /\ NotNewer(pass[p].user, r) => r \in store'
           /\ (r \notin store' /\ \E q \in store' : q.id = r.id)
                => (r.repo_id \in Listed(pass[p].user)
                      /\ ListedAt(pass[p].user, r.repo_id) > r.updated_at)]_vars

\* C22: within a pass the table is written only by the step that ends the walk, when
\* every page request and every README and languages request of the pass has been
\* answered; no step of fetch_and_filter_repositories before it inserts, updates or
\* deletes a row, and the pass issues no request after the write
C22_PhasesDoNotOverlap ==
  [][\A p \in PassIds :
       LET ps == pass[p]
           qs == pass'[p]
       IN /\ qs.pc \in {"page", "readme", "langs"} => store' = store
          /\ store' # store =>
               /\ ps.pc = "page" /\ qs.pc = "done"
               /\ qs.walk \in {"empty", "failed"}
               /\ qs.pending = <<>> /\ qs.cur = NoRepo
               /\ qs.readmeCalls = qs.langCalls
               /\ qs.readmeCalls = {e.id : e \in Upserts(qs)}]_vars

\* a pass that enriched an item over two pages and then wrote it
C22_Witness ==
  \E p \in PassIds :
    LET ps == pass[p] IN
    /\ ps.pc = "done" /\ ps.walk = "empty" /\ ps.page >= 3
    /\ ps.result[1] >= 1 /\ ps.readmeCalls # {}
    /\ \E r \in store : r.fetched_at = ps.clock /\ r.repo_id \in ps.readmeCalls

Completed(ps) == {e.id : e \in Upserts(ps)}

\* C23: the enrichment requests of a pass are issued one after the other: while the
\* README or the languages request of an item is out, both requests of every item
\* before it have been answered, and a page request is out only when both requests of
\* every item so far have been answered
C23_SequentialEnrichment ==
  \A p \in PassIds :
    LET ps == pass[p] IN
    /\ ps.pc = "readme" =>
         /\ ps.cur # NoRepo
         /\ ps.readmeCalls \ {ps.cur.id} = Completed(ps)
         /\ ps.langCalls = Completed(ps)
    /\ ps.pc = "langs" =>
         /\ ps.cur # NoRepo
         /\ ps.readmeCalls \ {ps.cur.id} = Completed(ps)
         /\ ps.langCalls \ {ps.cur.id} = Completed(ps)
    /\ ps.pc = "page" =>
         /\ ps.cur = NoRepo
         /\ ps.readmeCalls = Completed(ps)
         /\ ps.langCalls = Completed(ps)

\* the README request of the second item of a page is out, the first item is done
C23_Witness ==
  \E p \in PassIds :
    LET ps == pass[p] IN
    /\ ps.pc = "readme" /\ ps.page = 1
    /\ Completed(ps) # {}
    /\ ps.cur.id \notin Completed(ps)

\* the two values denote one UTC moment, read from their wall clocks and offsets
SameMoment(a, b) ==
  (IF a.aware THEN a.wall - a.off ELSE a.wall) = (IF b.aware THEN b.wall - b.off ELSE b.wall)

\* C24: compare_datetimes returns -1, 0 or 1, compare(a, b) = -compare(b, a), the
\* relation is transitive, and a value without offset is read as UTC: two values that
\* denote the same UTC moment, one without offset and one with, compare as 0
C24_CompareTotalOrder ==
  dt.pc = "ordered" =>
    /\ dt.cmp \in {-1, 0, 1}
    /\ dt.cmp = -dt.ba
    /\ (dt.cmp <= 0 /\ dt.bc <= 0) => dt.tc <= 0
    /\ (dt.cmp = 0 /\ dt.bc = 0) => dt.tc = 0
    /\ dt.cmp = 0 <=> SameMoment(dt.t, dt.b)

\* a value without offset against one with an offset other than UTC, same moment
C24_Witness ==
  /\ dt.pc = "ordered" /\ dt.cmp = 0 /\ dt.ba = 0
  /\ ~dt.t.aware /\ dt.b.aware /\ dt.b.off # 0
  /\ dt.t.wall = dt.b.wall - dt.b.off

Committed(ps) == ps.pc = "done" /\ ps.walk = "empty"

\* C25: after a pass whose walk ended on an empty page and whose writer committed, the
\* repo_ids stored with the account as owner are the repo_ids of its listing and each
\* of these rows has an updated_at >= the listed one, whatever the table held before
\* (rows of the same repo_id under another owner included)
C25_Convergence ==
  \A p \in PassIds :
    LET ps == pass[p] IN
    Committed(ps) =>
      /\ {r.repo_id : r \in QueryOwner(store, ps.user)} = Listed(ps.user)
      /\ \A r \in QueryOwner(store, ps.user) :
           r.repo_id \in Listed(ps.user) => r.updated_at >= ListedAt(ps.user, r.repo_id)

\* C26: over any sequence of passes, complete or cut short, the updated_at of a row
\* that stays in the table never decreases, also when the listing holds the
\* repository at an instant before the stored one
C26_FreshnessNeverRegresses ==
  [][\A r \in store : \A q \in store' :
       q.id = r.id => q.updated_at >= r.updated_at]_vars

\* a pass committed an update while the listing held another stored repository at an
\* instant before the stored one, and that row kept its instant
C26_Witness ==
  \E p \in PassIds :
    LET ps == pass[p] IN
    /\ ps.pc = "done" /\ ps.result[1] >= 1
    /\ \E rid \in ps.active \cap Prior(ps) :
         /\ StoredAt(ps, rid) > ListedAt(ps.user, rid)
         /\ \E r \in store : r.repo_id = rid /\ r.updated_at = StoredAt(ps, rid)

C27_NoSecondRow(st) ==
  \A r, q \in st : (r.repo_id = q.repo_id /\ r.owner_username = q.owner_username) => r = q

C27_NoPassFails(ps) == ~(ps.pc = "raised" /\ ps.raisedAt = "save")

C27_NoOlderOverwrite ==
  \A r \in store : \A q \in store' : q.id = r.id => q.updated_at >= r.updated_at

Consistent(r) == r.has_readme = (r.readme_content # None)

\* C28: every row the writer inserts or updates has has_readme true exactly when it
\* has a readme_content; a README request answered with a success status and an empty
\* body gives has_readme false and no readme_content
C28_ContentPresenceConsistency ==
  /\ \A r \in store : Consistent(r)
  /\ \A p \in PassIds :
       LET ps == pass[p] IN
       \A e \in Upserts(ps) :
         /\ Consistent(NewRepository(e, ps.user, now_utc(ps.clock)))
         /\ e.readme_status = "empty" => (~e.has_readme /\ e.readme_content = None)
         /\ (ps.pc = "done" /\ e.readme_status = "empty") =>
              \E r \in store :
                r.repo_id = e.id /\ ~r.has_readme /\ r.readme_content = None

\* a committed pass wrote one row whose README came back empty and one with a body
C28_Witness ==
  \E p \in PassIds :
    LET ps == pass[p] IN
    /\ ps.pc = "done"
    /\ \E e \in Upserts(ps) :
         /\ e.readme_status = "empty"
         /\ \E r \in store : r.repo_id = e.id /\ r.fetched_at = ps.clock /\ ~r.has_readme
    /\ \E e \in Upserts(ps) :
         /\ e.readme_status = "ok"
         /\ \E r \in store : r.repo_id = e.id /\ r.fetched_at = ps.clock /\ r.has_readme

\* C29: every project_analysis row is inserted with status pending and its status
\* changes at most once, to completed or failed; a repository that has an analysis row
\* for the user, in whatever status, is reported already_analyzed and
\* analyze_single_repository is never run for it again
C29_AnalysisLifecycle ==
  /\ \A a \in analysis.rows :
       /\ a.first = "pending"
       /\ a.changes <= 1
       /\ a.changes = 0 => a.analysis_status = "pending"
       /\ a.changes = 1 => a.analysis_status \in {"completed", "failed"}
  /\ \A i \in 1..Len(analysis.results) :
       (analysis.results[i].had /\ analysis.results[i].status # "not_found")
         => analysis.results[i].status = "already_analyzed"
  /\ \A rid \in RepoIds :
       /\ analysis.runs[rid] <= 1
       /\ Cardinality(ExistingAnalysis(analysis.rows, rid, "x")) <= 1

\* one call met a failed analysis of an earlier run and reported it already_analyzed,
\* and a later call did the same for the pending row a database error had left behind
C29_Witness ==
  /\ analysis.pc = "returned" /\ analysis.calls = 2
  /\ \E i \in 1..Len(analysis.results) :
       /\ analysis.results[i].status = "already_analyzed"
       /\ \E a \in analysis.rows :
            /\ a.repo_id = analysis.results[i].repo_name
            /\ a.analysis_status = "pending" /\ analysis.runs[a.repo_id] = 1
  /\ \E a \in analysis.rows : a.analysis_status = "failed" /\ analysis.runs[a.repo_id] = 0

\* C30: in the list fetch_and_filter_repositories returns, every upsert entry comes
\* before every deletion entry, every deletion entry names a repo_id of the snapshot
\* that the walk did not see, and no repo_id has both an upsert and a deletion entry
C30_WorkListWellFormed ==
  \A p \in PassIds :
    LET ps == pass[p] IN
    Ended(ps) =>
      /\ \A i, j \in 1..Len(ps.repositories) :
           (ps.repositories[i].should_delete /\ ~ps.repositories[j].should_delete) => j < i
      /\ \A e \in Removals(ps) : e.id \in Prior(ps) /\ e.id \notin ps.active
      /\ \A e \in Upserts(ps) : e.id \in ps.active
      /\ {e.id : e \in Upserts(ps)} \cap {e.id : e \in Removals(ps)} = {}

\* a returned list with an upsert of a stored repository and a deletion
C30_Witness ==
  \E p \in PassIds :
    LET ps == pass[p] IN
    /\ Ended(ps) /\ ps.walk = "empty"
    /\ Removals(ps) # {}
    /\ \E e \in Upserts(ps) : e.id \in Prior(ps)

====
